---- MODULE Spec2Model ----
(***************************************************************************)
(* Model of verification/verify_timeline_images.py: test_timeline_images,  *)
(* a linear Playwright script.  Every library call is one action; a call   *)
(* that can raise draws its outcome with \E ok \in BOOLEAN.  The page      *)
(* under test (dom, popoverSrc) is the input, drawn in Init.  Time is      *)
(* abstracted: a wait either succeeds or raises its timeout.               *)
(***************************************************************************)
EXTENDS Naturals, Sequences, FiniteSets

VARIABLES
    dom,          \* the page under test: elements in document order
    popoverSrc,   \* the src attribute of the popover image (PyNone: absent)
    pc,           \* the next step of test_timeline_images
    playwright,   \* the sync_playwright() context: "none", "started", "stopped"
    browser,      \* the browser session: "none", "open", "closed"
    closeCalls,   \* number of browser.close() calls made
    event_label,  \* element the locator of line 10 resolves to (0: none)
    waited,       \* element event_label.wait_for succeeded on (0: none)
    clicked,      \* element event_label.click acted on (0: none)
    src,          \* local variable src
    output,       \* the lines printed to standard output
    screenshot,   \* TRUE once verification/timeline_screenshot_clicked.png is written
    caught,       \* the exception bound to e by the except clause
    error,        \* the exception propagating out of the function
    status,       \* "running", "ok" (exit 0) or "failed" (uncaught exception)
    log           \* history: the calls made so far, each with its outcome

vars == <<dom, popoverSrc, pc, playwright, browser, closeCalls, event_label,
          waited, clicked, src, output, screenshot, caught, error, status, log>>

(* ------------------------------ bounds -------------------------------- *)

MaxElems == 2

(* ------------------------------- text --------------------------------- *)

The == <<"T", "h", "e">>
Sangiran == <<"S", "a", "n", "g", "i", "r", "a", "n">>
Flourishing == <<"F", "l", "o", "u", "r", "i", "s", "h", "i", "n", "g">>
Sp == <<" ">>

\* the argument of get_by_text
Label == The \o Sp \o Sangiran \o Sp \o Flourishing

\* lower-casing, on the capital letters that occur in Texts
LowerChar(c) ==
    CASE c = "T" -> "t"
      [] c = "S" -> "s"
      [] c = "F" -> "f"
      [] c = "E" -> "e"
      [] OTHER -> c

Lower(s) == [i \in 1..Len(s) |-> LowerChar(s[i])]

Contains(hay, needle) ==
    \E i \in 0..Len(hay) :
        /\ i + Len(needle) <= Len(hay)
        /\ SubSeq(hay, i + 1, i + Len(needle)) = needle

\* texts an element of the page may carry
LabelLower == Lower(Label)
LabelEra == Label \o Sp \o <<"E", "r", "a">>
OtherText == <<"S", "a", "n", "g", "i", "r", "a", "n">>
Texts == {Label, LabelLower, LabelEra, OtherText}

Elements == [text : Texts, visible : BOOLEAN]

Pages == UNION {[1..n -> Elements] : n \in 0..MaxElems}

\* get_by_text(text, exact): exact matches the whole string case-sensitively;
\* otherwise the match is a case-insensitive substring search
TextMatches(text, query, exact) ==
    IF exact THEN text = query
    ELSE Contains(Lower(text), Lower(query))

GetByText(d, query, exact) ==
    {i \in 1..Len(d) : TextMatches(d[i].text, query, exact)}

\* Locator.last: the last match in document order (0: the locator matches nothing)
Last(matches) ==
    IF matches = {} THEN 0
    ELSE CHOOSE i \in matches : \A j \in matches : j <= i

(* --------------------------- Python values ---------------------------- *)

PyNone == [type |-> "NoneType", val |-> ""]
PyStr(s) == [type |-> "str", val |-> s]
Unbound == [type |-> "unbound", val |-> ""]

SrcAttrs == {PyNone, PyStr(""), PyStr("/images/sangiran.jpg")}

\* str(v) as an f-string renders it
Str(v) == IF v.type = "NoneType" THEN "None" ELSE v.val

Line(prefix, detail) == [prefix |-> prefix, detail |-> detail]

NoError == "none"

(* ------------------------------ helpers ------------------------------- *)

Call(step, ok) == log' = Append(log, [step |-> step, ok |-> ok])

\* an exception raised outside the try block leaves the with block
Propagate(step) ==
    /\ error' = step
    /\ pc' = "with_exit"

\* an exception raised inside the try block is bound by the except clause
Raise(step) ==
    /\ caught' = step
    /\ pc' = "except"

(* ------------------------------- Init --------------------------------- *)

Init ==
    /\ dom \in Pages
    /\ popoverSrc \in SrcAttrs
    /\ pc = "with_enter"
    /\ playwright = "none"
    /\ browser = "none"
    /\ closeCalls = 0
    /\ event_label = 0
    /\ waited = 0
    /\ clicked = 0
    /\ src = Unbound
    /\ output = <<>>
    /\ screenshot = FALSE
    /\ caught = NoError
    /\ error = NoError
    /\ status = "running"
    /\ log = <<>>

(* ------------------------------ actions ------------------------------- *)

\* line 4: with sync_playwright() as p
WithEnter ==
    /\ pc = "with_enter"
    /\ \E ok \in BOOLEAN :
        /\ Call("sync_playwright", ok)
        /\ IF ok
           THEN /\ playwright' = "started"
                /\ pc' = "launch"
                /\ UNCHANGED <<error, status>>
           ELSE /\ error' = "sync_playwright"
                /\ status' = "failed"
                /\ pc' = "done"
                /\ UNCHANGED playwright
    /\ UNCHANGED <<dom, popoverSrc, browser, closeCalls, event_label, waited,
                   clicked, src, output, screenshot, caught>>

\* line 5: browser = p.chromium.launch(headless=True)
Launch ==
    /\ pc = "launch"
    /\ \E ok \in BOOLEAN :
        /\ Call("launch", ok)
        /\ IF ok
           THEN /\ browser' = "open"
                /\ pc' = "new_page"
                /\ UNCHANGED error
           ELSE /\ Propagate("launch")
                /\ UNCHANGED browser
    /\ UNCHANGED <<dom, popoverSrc, playwright, closeCalls, event_label, waited,
                   clicked, src, output, screenshot, caught, status>>

\* line 6: page = browser.new_page()
NewPage ==
    /\ pc = "new_page"
    /\ \E ok \in BOOLEAN :
        /\ Call("new_page", ok)
        /\ IF ok
           THEN /\ pc' = "goto"
                /\ UNCHANGED error
           ELSE Propagate("new_page")
    /\ UNCHANGED <<dom, popoverSrc, playwright, browser, closeCalls, event_label,
                   waited, clicked, src, output, screenshot, caught, status>>

\* line 7: page.goto("http://localhost:3000/vast-timeline")
Goto ==
    /\ pc = "goto"
    /\ \E ok \in BOOLEAN :
        /\ Call("goto", ok)
        /\ IF ok
           THEN /\ pc' = "wait_for_selector"
                /\ UNCHANGED error
           ELSE Propagate("goto")
    /\ UNCHANGED <<dom, popoverSrc, playwright, browser, closeCalls, event_label,
                   waited, clicked, src, output, screenshot, caught, status>>

\* the readiness wait, moved inside the try block
WaitForSelector_Caught ==
    /\ pc = "wait_for_selector"
    /\ \E ok \in BOOLEAN :
        /\ Call("wait_for_selector", ok)
        /\ IF ok
           THEN /\ pc' = "get_by_text"
                /\ UNCHANGED caught
           ELSE Raise("wait_for_selector")
    /\ UNCHANGED <<dom, popoverSrc, playwright, browser, closeCalls, event_label,
                   waited, clicked, src, output, screenshot, error, status>>

\* line 8: page.wait_for_selector("text=Nusantara Timeline", timeout=10000)
WaitForSelector ==
    /\ pc = "wait_for_selector"
    /\ \E ok \in BOOLEAN :
        /\ Call("wait_for_selector", ok)
        /\ IF ok
           THEN /\ pc' = "get_by_text"
                /\ UNCHANGED error
           ELSE Propagate("wait_for_selector")
    /\ UNCHANGED <<dom, popoverSrc, playwright, browser, closeCalls, event_label,
                   waited, clicked, src, output, screenshot, caught, status>>

\* line 10: event_label = page.get_by_text("The Sangiran Flourishing").last
\* (exact is not passed: it defaults to False).  The locator is lazy and the
\* page is static here, so it is resolved where it is built.
LocateLabel ==
    /\ pc = "get_by_text"
    /\ Call("get_by_text", TRUE)
    /\ event_label' = Last(GetByText(dom, Label, FALSE))
    /\ pc' = "label_wait_for"
    /\ UNCHANGED <<dom, popoverSrc, playwright, browser, closeCalls, waited,
                   clicked, src, output, screenshot, caught, error, status>>

LabelVisible == event_label # 0 /\ dom[event_label].visible

\* a wait that is tried a second time after it timed out
LabelWaitFor_Retry ==
    /\ pc = "label_wait_for"
    /\ Call("label_wait_for", LabelVisible)
    /\ IF LabelVisible
       THEN /\ waited' = event_label
            /\ pc' = "click"
            /\ UNCHANGED caught
       ELSE IF \E i \in 1..Len(log) : log[i].step = "label_wait_for"
            THEN /\ Raise("label_wait_for")
                 /\ UNCHANGED waited
            ELSE UNCHANGED <<pc, caught, waited>>
    /\ UNCHANGED <<dom, popoverSrc, playwright, browser, closeCalls, event_label,
                   clicked, src, output, screenshot, error, status>>

\* line 11: event_label.wait_for(state="visible", timeout=5000)
LabelWaitFor ==
    /\ pc = "label_wait_for"
    /\ Call("label_wait_for", LabelVisible)
    /\ IF LabelVisible
       THEN /\ waited' = event_label
            /\ pc' = "click"
            /\ UNCHANGED caught
       ELSE /\ Raise("label_wait_for")
            /\ UNCHANGED waited
    /\ UNCHANGED <<dom, popoverSrc, playwright, browser, closeCalls, event_label,
                   clicked, src, output, screenshot, error, status>>

\* line 12: event_label.click()
Click ==
    /\ pc = "click"
    /\ \E ok \in BOOLEAN :
        /\ Call("click", ok)
        /\ IF ok
           THEN /\ clicked' = event_label
                /\ pc' = "locator"
                /\ UNCHANGED caught
           ELSE /\ Raise("click")
                /\ UNCHANGED clicked
    /\ UNCHANGED <<dom, popoverSrc, playwright, browser, closeCalls, event_label,
                   waited, src, output, screenshot, error, status>>

\* line 13: popover_img = page.locator("div.absolute.z-50 img")
LocatePopover ==
    /\ pc = "locator"
    /\ Call("locator", TRUE)
    /\ pc' = "popover_wait_for"
    /\ UNCHANGED <<dom, popoverSrc, playwright, browser, closeCalls, event_label,
                   waited, clicked, src, output, screenshot, caught, error, status>>

\* line 14: popover_img.wait_for(state="visible", timeout=2000)
PopoverWaitFor ==
    /\ pc = "popover_wait_for"
    /\ \E ok \in BOOLEAN :
        /\ Call("popover_wait_for", ok)
        /\ IF ok
           THEN /\ pc' = "get_attribute"
                /\ UNCHANGED caught
           ELSE Raise("popover_wait_for")
    /\ UNCHANGED <<dom, popoverSrc, playwright, browser, closeCalls, event_label,
                   waited, clicked, src, output, screenshot, error, status>>

\* line 15: src = popover_img.get_attribute("src")
\* get_attribute returns None for an attribute the element does not have
GetAttribute ==
    /\ pc = "get_attribute"
    /\ \E ok \in BOOLEAN :
        /\ Call("get_attribute", ok)
        /\ IF ok
           THEN /\ src' = popoverSrc
                /\ pc' = "print_src"
                /\ UNCHANGED caught
           ELSE /\ Raise("get_attribute")
                /\ UNCHANGED src
    /\ UNCHANGED <<dom, popoverSrc, playwright, browser, closeCalls, event_label,
                   waited, clicked, output, screenshot, error, status>>

\* a print that leaves the value out
PrintSrc_NoValue ==
    /\ pc = "print_src"
    /\ Call("print_src", TRUE)
    /\ output' = Append(output, Line("Image src: ", ""))
    /\ pc' = "wait_for_timeout"
    /\ UNCHANGED <<dom, popoverSrc, playwright, browser, closeCalls, event_label,
                   waited, clicked, src, screenshot, caught, error, status>>

\* line 16: print(f"Image src: {src}")
PrintSrc ==
    /\ pc = "print_src"
    /\ Call("print_src", TRUE)
    /\ output' = Append(output, Line("Image src: ", Str(src)))
    /\ pc' = "wait_for_timeout"
    /\ UNCHANGED <<dom, popoverSrc, playwright, browser, closeCalls, event_label,
                   waited, clicked, src, screenshot, caught, error, status>>

\* an except clause that raises the exception again
Except_Reraise ==
    /\ pc = "except"
    /\ Call("print_error", TRUE)
    /\ output' = Append(output, Line("Error: ", caught))
    /\ Propagate(caught)
    /\ UNCHANGED <<dom, popoverSrc, playwright, browser, closeCalls, event_label,
                   waited, clicked, src, screenshot, caught, status>>

\* an except clause that swallows the exception without a message
Except_Silent ==
    /\ pc = "except"
    /\ Call("print_error", TRUE)
    /\ pc' = "wait_for_timeout"
    /\ UNCHANGED <<dom, popoverSrc, playwright, browser, closeCalls, event_label,
                   waited, clicked, src, output, screenshot, caught, error, status>>

\* an except clause that goes to the screenshot without the settle pause
Except_NoSettle ==
    /\ pc = "except"
    /\ Call("print_error", TRUE)
    /\ output' = Append(output, Line("Error: ", caught))
    /\ pc' = "screenshot"
    /\ UNCHANGED <<dom, popoverSrc, playwright, browser, closeCalls, event_label,
                   waited, clicked, src, screenshot, caught, error, status>>

\* lines 17-18: except Exception as e: print(f"Error: {e}")
Except ==
    /\ pc = "except"
    /\ Call("print_error", TRUE)
    /\ output' = Append(output, Line("Error: ", caught))
    /\ pc' = "wait_for_timeout"
    /\ UNCHANGED <<dom, popoverSrc, playwright, browser, closeCalls, event_label,
                   waited, clicked, src, screenshot, caught, error, status>>

\* line 19: page.wait_for_timeout(1000)
WaitForTimeout ==
    /\ pc = "wait_for_timeout"
    /\ \E ok \in BOOLEAN :
        /\ Call("wait_for_timeout", ok)
        /\ IF ok
           THEN /\ pc' = "screenshot"
                /\ UNCHANGED error
           ELSE Propagate("wait_for_timeout")
    /\ UNCHANGED <<dom, popoverSrc, playwright, browser, closeCalls, event_label,
                   waited, clicked, src, output, screenshot, caught, status>>

\* line 20: page.screenshot(path="verification/timeline_screenshot_clicked.png")
Screenshot ==
    /\ pc = "screenshot"
    /\ \E ok \in BOOLEAN :
        /\ Call("screenshot", ok)
        /\ IF ok
           THEN /\ screenshot' = TRUE
                /\ pc' = "close"
                /\ UNCHANGED error
           ELSE /\ Propagate("screenshot")
                /\ UNCHANGED screenshot
    /\ UNCHANGED <<dom, popoverSrc, playwright, browser, closeCalls, event_label,
                   waited, clicked, src, output, caught, status>>

\* line 21: browser.close()
Close ==
    /\ pc = "close"
    /\ closeCalls' = closeCalls + 1
    /\ \E ok \in BOOLEAN :
        /\ Call("close", ok)
        /\ IF ok
           THEN /\ browser' = "closed"
                /\ pc' = "with_exit"
                /\ UNCHANGED error
           ELSE /\ Propagate("close")
                /\ UNCHANGED browser
    /\ UNCHANGED <<dom, popoverSrc, playwright, event_label, waited, clicked,
                   src, output, screenshot, caught, status>>

\* line 4: leaving the with block stops the Playwright driver; it makes no
\* browser.close() call.  Lines 23-24: an exception that leaves the function
\* ends the process with a failing status.
WithExit ==
    /\ pc = "with_exit"
    /\ Call("with_exit", TRUE)
    /\ playwright' = "stopped"
    /\ status' = IF error = NoError THEN "ok" ELSE "failed"
    /\ pc' = "done"
    /\ UNCHANGED <<dom, popoverSrc, browser, closeCalls, event_label, waited,
                   clicked, src, output, screenshot, caught, error>>

Next ==
    \/ WithEnter
    \/ Launch
    \/ NewPage
    \/ Goto
    \/ WaitForSelector
    \/ LocateLabel
    \/ LabelWaitFor
    \/ Click
    \/ LocatePopover
    \/ PopoverWaitFor
    \/ GetAttribute
    \/ PrintSrc
    \/ Except
    \/ WaitForTimeout
    \/ Screenshot
    \/ Close
    \/ WithExit

Spec == Init /\ [][Next]_vars

(* ------------------------- history predicates -------------------------- *)

Has(step, ok) == \E i \in 1..Len(log) : log[i].step = step /\ log[i].ok = ok

Tried(step) == \E i \in 1..Len(log) : log[i].step = step

Prints(prefix) == \E i \in 1..Len(output) : output[i].prefix = prefix

TrySteps == {"get_by_text", "label_wait_for", "click", "locator",
             "popover_wait_for", "get_attribute", "print_src"}

RaisingTrySteps == {"label_wait_for", "click", "popover_wait_for", "get_attribute"}

LaterSteps == {"wait_for_timeout", "screenshot", "close"}

Ready == Has("wait_for_selector", TRUE)

InteractionFailed == \E s \in RaisingTrySteps : Has(s, FALSE)

(* ------------------------------- claims -------------------------------- *)

\* C1: every run in which launch, navigation and the readiness wait succeeded
\* has made exactly one browser.close() call by the time it ends, whether the
\* interaction block completed or raised and was caught.
C1_ClosedExactlyOnce ==
    (pc = "done" /\ Has("launch", TRUE) /\ Has("goto", TRUE) /\ Ready)
        => closeCalls = 1

\* C2: no run ends with a launched browser session on which close was never
\* called, whichever step ended the run.
C2_ClosedOnEveryExit ==
    (pc = "done" /\ Has("launch", TRUE)) => closeCalls >= 1

C4_FatalFailureAborts ==
    (Has("launch", FALSE) \/ Has("goto", FALSE) \/ Has("wait_for_selector", FALSE)) =>
        /\ pc \in {"with_exit", "done"}
        /\ error \in {"launch", "goto", "wait_for_selector"}
        /\ Has(error, FALSE)
        /\ pc = "done" => status = "failed"
        /\ \A s \in TrySteps \cup LaterSteps \cup {"print_error"} : ~Tried(s)
        /\ output = <<>>
        /\ ~screenshot

C4_Witness ==
    /\ pc = "done"
    /\ Has("wait_for_selector", FALSE)
    /\ status = "failed"

\* C5: a popover image without a src attribute makes the interaction sequence
\* fail: once the try block is left, an "Error:" line was printed and no
\* "Image src:" line.
C5_MissingSrcIsError ==
    (popoverSrc = PyNone /\ Has("popover_wait_for", TRUE) /\ Tried("wait_for_timeout"))
        => (Prints("Error: ") /\ ~Prints("Image src: "))

\* C6: on a page with at least one element whose text is exactly the label,
\* the element waited on and clicked is the last of those exact-text elements.
C6_LastExactMatch ==
    LET exact == GetByText(dom, Label, TRUE)
    IN exact # {} =>
        /\ Tried("label_wait_for") => event_label = Last(exact)
        /\ waited # 0 => waited = Last(exact)
        /\ clicked # 0 => clicked = Last(exact)

HappyPath ==
    /\ pc = "done"
    /\ \A i \in 1..Len(log) : log[i].ok
    /\ Ready
    /\ Has("label_wait_for", TRUE)
    /\ Has("click", TRUE)
    /\ Has("popover_wait_for", TRUE)
    /\ popoverSrc.type = "str"
    /\ popoverSrc.val # ""

\* C7: on the happy path the output includes the popover image's literal src
\* string and the screenshot file exists when the run has ended.
C7_HappyPathOutput ==
    HappyPath =>
        /\ \E i \in 1..Len(output) :
               output[i] = Line("Image src: ", popoverSrc.val)
        /\ screenshot

C7_Witness == HappyPath /\ status = "ok"

Order ==
    <<"sync_playwright", "launch", "new_page", "goto", "wait_for_selector",
      "get_by_text", "label_wait_for", "click", "locator", "popover_wait_for",
      "get_attribute", "print_src", "print_error", "wait_for_timeout",
      "screenshot", "close", "with_exit">>

Idx(step) == CHOOSE k \in 1..Len(Order) : Order[k] = step

Before(i, step, ok) == i > 1 /\ log[i - 1].step = step /\ log[i - 1].ok = ok

\* C8: the steps are made strictly in the order of the phases; a step that
\* succeeded is followed by the next one of its phase list; the click follows
\* the successful label wait, the attribute read follows the click and the
\* successful popover wait; the settle pause follows either print, the
\* screenshot follows the successful settle pause and the close follows the
\* successful screenshot.
C8_PhaseOrder ==
    \A i \in 1..Len(log) :
        /\ i > 1 => Idx(log[i - 1].step) < Idx(log[i].step)
        /\ (i > 1 /\ log[i - 1].ok /\ log[i - 1].step \notin {"print_src", "print_error", "close"})
               => Idx(log[i].step) = Idx(log[i - 1].step) + 1
        /\ log[i].step = "click" => Before(i, "label_wait_for", TRUE)
        /\ log[i].step = "get_attribute" =>
               Before(i, "popover_wait_for", TRUE) /\ Has("click", TRUE)
        /\ (i > 1 /\ log[i - 1].step \in {"print_src", "print_error"})
               => log[i].step = "wait_for_timeout"
        /\ log[i].step = "wait_for_timeout" =>
               Before(i, "print_src", TRUE) \/ Before(i, "print_error", TRUE)
        /\ log[i].step = "screenshot" => Before(i, "wait_for_timeout", TRUE)
        /\ log[i].step = "close" => Before(i, "screenshot", TRUE)

C8_Witness ==
    /\ pc = "done"
    /\ Has("print_error", TRUE)
    /\ Has("wait_for_timeout", TRUE)
    /\ Has("screenshot", TRUE)
    /\ Has("close", TRUE)

\* C9: in a run every step is attempted at most once; a step that failed is
\* not attempted again.
C9_NoRetries ==
    \A i, j \in 1..Len(log) : log[i].step = log[j].step => i = j

C9_Witness ==
    /\ pc = "done"
    /\ Has("label_wait_for", FALSE)
    /\ Has("screenshot", TRUE)

\* C10: a run prints nothing before it passed the readiness wait; once it has
\* left the try block it has printed exactly one line: "Image src:" only if
\* every interaction step completed, "Error:" only if one of them raised.
C10_OneDiagnosticLine ==
    /\ Len(output) <= 1
    /\ ~Ready => output = <<>>
    /\ (Ready /\ (Tried("wait_for_timeout") \/ pc = "wait_for_timeout"))
           => Len(output) = 1
    /\ Tried("screenshot") => Len(output) = 1
    /\ Prints("Image src: ") =>
           /\ ~InteractionFailed
           /\ \A s \in RaisingTrySteps : Has(s, TRUE)
    /\ Prints("Error: ") => InteractionFailed

C10_Witness ==
    /\ pc = "screenshot"
    /\ InteractionFailed
    /\ Len(output) = 1
    /\ Prints("Error: ")

====
